---- MODULE Spec2Model ----
(***************************************************************************)
(* Women Travel Safety API (src/main.py, src/schemas.py).                  *)
(*                                                                         *)
(* The store is four MongoDB collections (place, review, user,             *)
(* quizresult).  Every request handler runs on a worker; a handler that    *)
(* makes several store calls is one action per store call, because each    *)
(* single-document store call is atomic and nothing else is.               *)
(*                                                                         *)
(* Scores are kept in hundredths (4.7 is 470), so that round(avg, 2) is    *)
(* integer arithmetic.  Optional[...] values are sequences of length 0     *)
(* (None) or 1.                                                            *)
(***************************************************************************)
EXTENDS Integers, Sequences, FiniteSets, TLC

\* Bounds of the model: how many calls of each writing handler are started.
MaxSeed == 1
MaxReview == 2
MaxUser == 2
MaxQuiz == 1

\* In the specification of the whole service: how many documents are inserted.
MaxDocs == 5

\* Place.safety_score's default, in hundredths (3.5).
DefaultSafetyScore == 350

Workers == {"w1", "w2"}

None == <<>>

Some(x) == <<x>>

RECURSIVE SumSeq(_)
SumSeq(s) == IF s = <<>> THEN 0 ELSE Head(s) + SumSeq(Tail(s))

RECURSIVE SumOver(_, _)
SumOver(f, S) ==
    IF S = {} THEN 0
    ELSE LET x == CHOOSE y \in S : TRUE
         IN  f[x] + SumOver(f, S \ {x})

Range(s) == {s[i] : i \in DOMAIN s}

\* [f(x) for x in s]
RECURSIVE MapField(_, _)
MapField(s, k) == IF s = <<>> THEN <<>> ELSE <<Head(s)[k]>> \o MapField(Tail(s), k)

(***************************************************************************)
(* Identifiers.  An ObjectId is a number here; its string forms are        *)
(* records.  ObjectId(s) accepts any 24 hex digits, in either case, and    *)
(* str(ObjectId) is the lowercase form, so two different strings parse to  *)
(* the same ObjectId.  "bad" is a string that is not 24 hex digits.        *)
(***************************************************************************)
IdLower(n) == [kind |-> "lower", n |-> n]

IdUpper(n) == [kind |-> "upper", n |-> n]

IdBad == [kind |-> "bad", n |-> 0]

\* str(ObjectId(...))
StrOfOid(oid) == IdLower(oid)

\* ObjectId(id_str) raises for a malformed string: objid answers 400.
IsValidId(id_str) == id_str.kind \in {"lower", "upper"}

\* objid(id_str) when it does not raise.
objid(id_str) == id_str.n

(***************************************************************************)
(* Strings as character sequences, for the regular expressions of          *)
(* list_places.                                                            *)
(***************************************************************************)
Chars(s) ==
    CASE s = "Aurora Boutique Hotel" ->
        <<"A", "u", "r", "o", "r", "a", " ", "B", "o", "u", "t", "i", "q", "u", "e", " ", "H", "o", "t", "e", "l">>
      [] s = "Lisbon" ->
        <<"L", "i", "s", "b", "o", "n">>
      [] s = "hotel" ->
        <<"h", "o", "t", "e", "l">>
      [] s = "Women-staffed, well-lit area; guests report safe returns at night." ->
        <<"W", "o", "m", "e", "n", "-", "s", "t", "a", "f", "f", "e", "d", ",", " ", "w", "e", "l", "l", "-", "l", "i", "t", " ", "a", "r", "e", "a", ";", " ", "g", "u", "e", "s", "t", "s", " ", "r", "e", "p", "o", "r", "t", " ", "s", "a", "f", "e", " ", "r", "e", "t", "u", "r", "n", "s", " ", "a", "t", " ", "n", "i", "g", "h", "t", ".">>
      [] s = "women-staffed" ->
        <<"w", "o", "m", "e", "n", "-", "s", "t", "a", "f", "f", "e", "d">>
      [] s = "well-lit" ->
        <<"w", "e", "l", "l", "-", "l", "i", "t">>
      [] s = "central" ->
        <<"c", "e", "n", "t", "r", "a", "l">>
      [] s = "Garden District" ->
        <<"G", "a", "r", "d", "e", "n", " ", "D", "i", "s", "t", "r", "i", "c", "t">>
      [] s = "Singapore" ->
        <<"S", "i", "n", "g", "a", "p", "o", "r", "e">>
      [] s = "neighborhood" ->
        <<"n", "e", "i", "g", "h", "b", "o", "r", "h", "o", "o", "d">>
      [] s = "Exceptionally safe at night; strong street presence and cameras." ->
        <<"E", "x", "c", "e", "p", "t", "i", "o", "n", "a", "l", "l", "y", " ", "s", "a", "f", "e", " ", "a", "t", " ", "n", "i", "g", "h", "t", ";", " ", "s", "t", "r", "o", "n", "g", " ", "s", "t", "r", "e", "e", "t", " ", "p", "r", "e", "s", "e", "n", "c", "e", " ", "a", "n", "d", " ", "c", "a", "m", "e", "r", "a", "s", ".">>
      [] s = "night-safe" ->
        <<"n", "i", "g", "h", "t", "-", "s", "a", "f", "e">>
      [] s = "family-friendly" ->
        <<"f", "a", "m", "i", "l", "y", "-", "f", "r", "i", "e", "n", "d", "l", "y">>
      [] s = "clean" ->
        <<"c", "l", "e", "a", "n">>
      [] s = "Olive & Thyme" ->
        <<"O", "l", "i", "v", "e", " ", "&", " ", "T", "h", "y", "m", "e">>
      [] s = "Barcelona" ->
        <<"B", "a", "r", "c", "e", "l", "o", "n", "a">>
      [] s = "restaurant" ->
        <<"r", "e", "s", "t", "a", "u", "r", "a", "n", "t">>
      [] s = "Busy staff presence, friendly crowd; avoid very late weekends." ->
        <<"B", "u", "s", "y", " ", "s", "t", "a", "f", "f", " ", "p", "r", "e", "s", "e", "n", "c", "e", ",", " ", "f", "r", "i", "e", "n", "d", "l", "y", " ", "c", "r", "o", "w", "d", ";", " ", "a", "v", "o", "i", "d", " ", "v", "e", "r", "y", " ", "l", "a", "t", "e", " ", "w", "e", "e", "k", "e", "n", "d", "s", ".">>
      [] s = "staff-present" ->
        <<"s", "t", "a", "f", "f", "-", "p", "r", "e", "s", "e", "n", "t">>
      [] s = "friendly" ->
        <<"f", "r", "i", "e", "n", "d", "l", "y">>
      [] s = "busy" ->
        <<"b", "u", "s", "y">>
      [] s = "" ->
        <<>>
      [] s = "lisbon" ->
        <<"l", "i", "s", "b", "o", "n">>
      [] s = "LISBON" ->
        <<"L", "I", "S", "B", "O", "N">>
      [] s = "Lis" ->
        <<"L", "i", "s">>
      [] s = "L.sbon" ->
        <<"L", ".", "s", "b", "o", "n">>
      [] s = "Hotel" ->
        <<"H", "o", "t", "e", "l">>
      [] s = "hot" ->
        <<"h", "o", "t">>
      [] s = "SAFE" ->
        <<"S", "A", "F", "E">>
      [] s = "staff" ->
        <<"s", "t", "a", "f", "f">>
      [] s = "Thy.e" ->
        <<"T", "h", "y", ".", "e">>
      [] s = "zz" ->
        <<"z", "z">>

UpperLetters ==
    <<"A", "B", "C", "D", "E", "F", "G", "H", "I", "J", "K", "L", "M",
      "N", "O", "P", "Q", "R", "S", "T", "U", "V", "W", "X", "Y", "Z">>

LowerLetters ==
    <<"a", "b", "c", "d", "e", "f", "g", "h", "i", "j", "k", "l", "m",
      "n", "o", "p", "q", "r", "s", "t", "u", "v", "w", "x", "y", "z">>

ToLower(c) ==
    IF \E i \in DOMAIN UpperLetters : UpperLetters[i] = c
    THEN LowerLetters[CHOOSE i \in DOMAIN UpperLetters : UpperLetters[i] = c]
    ELSE c

(***************************************************************************)
(* The state.                                                              *)
(***************************************************************************)
VARIABLES
    place,        \* db["place"], in insertion order
    review,       \* db["review"]
    user,         \* db["user"]
    quizresult,   \* db["quizresult"]
    oidSeq,       \* ObjectIds generated so far
    pc,           \* pc[w]: where worker w is in its handler
    req,          \* req[w]: the request worker w is serving
    loc,          \* loc[w]: the handler's local variables
    ret           \* ret[w]: the response, once pc[w] = "done"

vars == <<place, review, user, quizresult, oidSeq, pc, req, loc, ret>>

store == <<place, review, user, quizresult, oidSeq>>

NoReq == [op |-> "none"]

NoLoc == [none |-> TRUE]

NoRet == [status |-> 0, body |-> None]

Init ==
    /\ place = <<>>
    /\ review = <<>>
    /\ user = <<>>
    /\ quizresult = <<>>
    /\ oidSeq = 0
    /\ pc = [w \in Workers |-> "idle"]
    /\ req = [w \in Workers |-> NoReq]
    /\ loc = [w \in Workers |-> NoLoc]
    /\ ret = [w \in Workers |-> NoRet]

(***************************************************************************)
(* The persistence layer: pymongo's single-document calls and database.py's *)
(* create_document / get_documents.                                        *)
(***************************************************************************)
\* create_document: the document as inserted, with its fresh _id and its
\* creation timestamp (a logical clock: the number of the insert).
Stamp(data, oid) ==
    [k \in DOMAIN data \cup {"_id", "created_at"} |->
        IF k = "_id" THEN oid
        ELSE IF k = "created_at" THEN oid
        ELSE data[k]]

\* collection.find_one({"_id": oid}): None or the document.
FindOneById(coll, oid) ==
    LET hits == SelectSeq(coll, LAMBDA d : d._id = oid)
    IN  IF hits = <<>> THEN None ELSE Some(hits[1])

\* UpdateOneSet as an update_many({}, ...): the filter lost.
UpdateOneSet_Many(coll, oid, field, value) ==
    [i \in DOMAIN coll |-> [coll[i] EXCEPT ![field] = value]]

\* collection.update_one({"_id": oid}, {"$set": {field: value}})
UpdateOneSet(coll, oid, field, value) ==
    LET first == CHOOSE i \in DOMAIN coll :
                    /\ coll[i]._id = oid
                    /\ \A j \in 1..(i - 1) : coll[j]._id # oid
    IN  IF \E i \in DOMAIN coll : coll[i]._id = oid
        THEN [coll EXCEPT ![first] = [@ EXCEPT ![field] = value]]
        ELSE coll

\* serialize(doc): "_id" becomes "id", a string; None stays None.
serialize(doc) ==
    IF doc = None THEN None
    ELSE Some([k \in (DOMAIN doc[1] \ {"_id"}) \cup {"id"} |->
                 IF k = "id" THEN StrOfOid(doc[1]._id) ELSE doc[1][k]])

Reply(status, body) == [status |-> status, body |-> body]

Finish(w, response) ==
    /\ pc' = [pc EXCEPT ![w] = "done"]
    /\ ret' = [ret EXCEPT ![w] = response]

\* The response has been sent; the worker takes the next request.
Return(w) ==
    /\ pc[w] = "done"
    /\ pc' = [pc EXCEPT ![w] = "idle"]
    /\ req' = [req EXCEPT ![w] = NoReq]
    /\ loc' = [loc EXCEPT ![w] = NoLoc]
    /\ ret' = [ret EXCEPT ![w] = NoRet]
    /\ UNCHANGED store

(***************************************************************************)
(* POST /seed                                                              *)
(***************************************************************************)
Samples ==
    << [name |-> "Aurora Boutique Hotel", city |-> "Lisbon", type |-> "hotel",
        safety_score |-> 470,
        description |-> "Women-staffed, well-lit area; guests report safe returns at night.",
        main_tags |-> <<"women-staffed", "well-lit", "central">>],
       [name |-> "Garden District", city |-> "Singapore", type |-> "neighborhood",
        safety_score |-> 490,
        description |-> "Exceptionally safe at night; strong street presence and cameras.",
        main_tags |-> <<"night-safe", "family-friendly", "clean">>],
       [name |-> "Olive & Thyme", city |-> "Barcelona", type |-> "restaurant",
        safety_score |-> 440,
        description |-> "Busy staff presence, friendly crowd; avoid very late weekends.",
        main_tags |-> <<"staff-present", "friendly", "busy">>] >>

\* Inserts that the seed calls in flight have still to make.
SeedPending ==
    SumOver([w \in Workers |->
                IF pc[w] = "seed_insert" THEN Len(Samples) - Len(loc[w].ids) ELSE 0],
            Workers)

SeedCall(w) ==
    /\ pc[w] = "idle"
    /\ Len(place) + SeedPending + Len(Samples) <= MaxSeed * Len(Samples)
    /\ pc' = [pc EXCEPT ![w] = "seed_insert"]
    /\ req' = [req EXCEPT ![w] = [op |-> "seed"]]
    /\ loc' = [loc EXCEPT ![w] = [ids |-> <<>>]]
    /\ UNCHANGED <<store, ret>>

\* One turn of the loop: ids.append(create_document("place", p)).
SeedInsert(w) ==
    /\ pc[w] = "seed_insert"
    /\ LET k == Len(loc[w].ids) + 1
           oid == oidSeq + 1
           ids == Append(loc[w].ids, StrOfOid(oid))
       IN  /\ place' = Append(place, Stamp(Samples[k], oid))
           /\ oidSeq' = oid
           /\ loc' = [loc EXCEPT ![w] = [ids |-> ids]]
           /\ IF k = Len(Samples)
              THEN Finish(w, Reply(200, [inserted |-> ids]))
              ELSE UNCHANGED <<pc, ret>>
    /\ UNCHANGED <<review, user, quizresult, req>>

(***************************************************************************)
(* POST /places/{place_id}/reviews                                         *)
(***************************************************************************)
\* NewReview.rating: Field(..., ge=1, le=5), checked before the handler runs.
RatingOk(rating) == rating >= 1 /\ rating <= 5

\* round(total / n, 2) in hundredths: Python rounds the exact tie to even.
Round2(total, n) ==
    LET q == (100 * total) \div n
        r == (100 * total) % n
    IN  IF 2 * r < n THEN q
        ELSE IF 2 * r > n THEN q + 1
        ELSE IF q % 2 = 0 THEN q ELSE q + 1

\* RatingsFor with the filter lost: every review of the collection.
RatingsFor_NoFilter(place_id) == MapField(review, "rating")

\* [r.get("rating", 0) for r in db["review"].find({"place_id": place_id})]:
\* the filter compares the stored string with the request's string.
RatingsFor(place_id) ==
    MapField(SelectSeq(review, LAMBDA r : r.place_id = place_id), "rating")

\* add_review calls that have still to insert their review.
ReviewPending == Cardinality({w \in Workers : pc[w] = "ar_insert"})

\* AddReviewCall without the lookup of the place.
AddReviewCall_NoLookup(w, place_id, payload) ==
    /\ pc[w] = "idle"
    /\ Len(review) + ReviewPending < MaxReview
    /\ req' = [req EXCEPT ![w] =
                  [op |-> "add_review", place_id |-> place_id, payload |-> payload]]
    /\ IF ~RatingOk(payload.rating)
       THEN Finish(w, Reply(422, "Validation error")) /\ UNCHANGED loc
       ELSE IF ~IsValidId(place_id)
       THEN Finish(w, Reply(400, "Invalid ID format")) /\ UNCHANGED loc
       ELSE /\ pc' = [pc EXCEPT ![w] = "ar_insert"]
            /\ loc' = [loc EXCEPT ![w] = [rid |-> None, ratings |-> <<>>]]
            /\ UNCHANGED ret
    /\ UNCHANGED store

\* Validation of the body, objid(place_id) and the lookup of the place.
AddReviewCall(w, place_id, payload) ==
    /\ pc[w] = "idle"
    /\ Len(review) + ReviewPending < MaxReview
    /\ req' = [req EXCEPT ![w] =
                  [op |-> "add_review", place_id |-> place_id, payload |-> payload]]
    /\ IF ~RatingOk(payload.rating)
       THEN Finish(w, Reply(422, "Validation error")) /\ UNCHANGED loc
       ELSE IF ~IsValidId(place_id)
       THEN Finish(w, Reply(400, "Invalid ID format")) /\ UNCHANGED loc
       ELSE IF FindOneById(place, objid(place_id)) = None
       THEN Finish(w, Reply(404, "Place not found")) /\ UNCHANGED loc
       ELSE /\ pc' = [pc EXCEPT ![w] = "ar_insert"]
            /\ loc' = [loc EXCEPT ![w] = [rid |-> None, ratings |-> <<>>]]
            /\ UNCHANGED ret
    /\ UNCHANGED store

\* rid = create_document("review", review)
AddReviewInsert(w) ==
    /\ pc[w] = "ar_insert"
    /\ LET oid == oidSeq + 1
           p == req[w].payload
           doc == [user_id |-> p.user_id, place_id |-> req[w].place_id,
                   rating |-> p.rating, safety_tags |-> p.safety_tags,
                   comment |-> p.comment, night_safe |-> p.night_safe,
                   harassment |-> p.harassment]
       IN  /\ review' = Append(review, Stamp(doc, oid))
           /\ oidSeq' = oid
           /\ loc' = [loc EXCEPT ![w].rid = Some(StrOfOid(oid))]
    /\ pc' = [pc EXCEPT ![w] = "ar_find"]
    /\ UNCHANGED <<place, user, quizresult, req, ret>>

\* ratings = [...]; without ratings the handler returns at once.
AddReviewFind(w) ==
    /\ pc[w] = "ar_find"
    /\ LET ratings == RatingsFor(req[w].place_id)
       IN  /\ loc' = [loc EXCEPT ![w].ratings = ratings]
           /\ IF ratings # <<>>
              THEN pc' = [pc EXCEPT ![w] = "ar_update"] /\ UNCHANGED ret
              ELSE Finish(w, Reply(200, [id |-> loc[w].rid[1]]))
    /\ UNCHANGED <<store, req>>

\* avg = sum(ratings) / len(ratings); update_one(..., {"$set": {"safety_score": round(avg, 2)}})
AddReviewUpdate(w) ==
    /\ pc[w] = "ar_update"
    /\ LET ratings == loc[w].ratings
       IN  place' = UpdateOneSet(place, objid(req[w].place_id), "safety_score",
                                 Round2(SumSeq(ratings), Len(ratings)))
    /\ Finish(w, Reply(200, [id |-> loc[w].rid[1]]))
    /\ UNCHANGED <<review, user, quizresult, oidSeq, req, loc>>

\* Requests: place 1 under both spellings of its id with ratings 1 and 2, and
\* one request for each way of being refused.
ReviewInputs ==
    { <<IdLower(1), 1>>, <<IdLower(1), 2>>, <<IdUpper(1), 1>>, <<IdUpper(1), 2>>,
      <<IdLower(1), 0>>, <<IdUpper(1), 6>>, <<IdBad, 2>>, <<IdLower(5), 1>> }

NewReview(rating) ==
    [user_id |-> "u1", rating |-> rating, safety_tags |-> <<>>, comment |-> None,
     night_safe |-> TRUE, harassment |-> FALSE]

ReviewStep(w) ==
    \/ SeedCall(w)
    \/ SeedInsert(w)
    \/ \E in \in ReviewInputs : AddReviewCall(w, in[1], NewReview(in[2]))
    \/ AddReviewInsert(w)
    \/ AddReviewFind(w)
    \/ AddReviewUpdate(w)
    \/ Return(w)

\* Workers serve requests concurrently.
ReviewNext == \E w \in Workers : ReviewStep(w)

ReviewSpec == Init /\ [][ReviewNext]_vars

\* Requests arrive one at a time: a request is served only when no other is.
Alone(w) == \A v \in Workers \ {w} : pc[v] = "idle"

SeqReviewNext == \E w \in Workers : Alone(w) /\ ReviewStep(w)

SeqReviewSpec == Init /\ [][SeqReviewNext]_vars

(***************************************************************************)
(* POST /auth/signup                                                       *)
(***************************************************************************)
\* FindOneByEmail looking at the wrong field.
FindOneByEmail_ByName(email) ==
    LET hits == SelectSeq(user, LAMBDA d : d.name = email)
    IN  IF hits = <<>> THEN None ELSE Some(hits[1])

\* db["user"].find_one({"email": email}): the first document with that email.
FindOneByEmail(email) ==
    LET hits == SelectSeq(user, LAMBDA d : d.email = email)
    IN  IF hits = <<>> THEN None ELSE Some(hits[1])

\* signup calls that have still to insert their user.
SignupPending == Cardinality({w \in Workers : pc[w] = "su_insert"})

\* existing = db["user"].find_one({"email": payload.email})
SignupCall(w, payload) ==
    /\ pc[w] = "idle"
    /\ Len(user) + SignupPending < MaxUser
    /\ req' = [req EXCEPT ![w] = [op |-> "signup", payload |-> payload]]
    /\ LET existing == FindOneByEmail(payload.email)
       IN  IF existing # None
           THEN Finish(w, Reply(200, serialize(existing))) /\ UNCHANGED loc
           ELSE /\ pc' = [pc EXCEPT ![w] = "su_insert"]
                /\ loc' = [loc EXCEPT ![w] = [uid |-> None]]
                /\ UNCHANGED ret
    /\ UNCHANGED store

\* SignupInsert made atomic with a second lookup: a find-or-create.
SignupInsert_FindOrCreate(w) ==
    /\ pc[w] = "su_insert"
    /\ LET oid == oidSeq + 1
           p == req[w].payload
           existing == FindOneByEmail(p.email)
           doc == [name |-> p.name, email |-> p.email, photo |-> p.photo,
                   saved_places |-> <<>>, saved_cities |-> <<>>]
       IN  IF existing # None
           THEN /\ loc' = [loc EXCEPT ![w].uid = Some(StrOfOid(existing[1]._id))]
                /\ UNCHANGED <<user, oidSeq>>
           ELSE /\ user' = Append(user, Stamp(doc, oid))
                /\ oidSeq' = oid
                /\ loc' = [loc EXCEPT ![w].uid = Some(StrOfOid(oid))]
    /\ pc' = [pc EXCEPT ![w] = "su_find"]
    /\ UNCHANGED <<place, review, quizresult, req, ret>>

\* uid = create_document("user", {...})
SignupInsert(w) ==
    /\ pc[w] = "su_insert"
    /\ LET oid == oidSeq + 1
           p == req[w].payload
           doc == [name |-> p.name, email |-> p.email, photo |-> p.photo,
                   saved_places |-> <<>>, saved_cities |-> <<>>]
       IN  /\ user' = Append(user, Stamp(doc, oid))
           /\ oidSeq' = oid
           /\ loc' = [loc EXCEPT ![w].uid = Some(StrOfOid(oid))]
    /\ pc' = [pc EXCEPT ![w] = "su_find"]
    /\ UNCHANGED <<place, review, quizresult, req, ret>>

\* doc = db["user"].find_one({"_id": objid(uid)}); return serialize(doc)
SignupFind(w) ==
    /\ pc[w] = "su_find"
    /\ Finish(w, Reply(200, serialize(FindOneById(user, objid(loc[w].uid[1])))))
    /\ UNCHANGED <<store, req, loc>>

(***************************************************************************)
(* POST /me/{user_id}/save and GET /me/{user_id}                           *)
(***************************************************************************)
\* update_one({"_id": oid}, {"$push": {field: value}}): appends always.
UpdateOnePush(coll, oid, field, value) ==
    LET first == CHOOSE i \in DOMAIN coll :
                    /\ coll[i]._id = oid
                    /\ \A j \in 1..(i - 1) : coll[j]._id # oid
    IN  IF \E i \in DOMAIN coll : coll[i]._id = oid
        THEN [coll EXCEPT ![first] = [@ EXCEPT ![field] = Append(@, value)]]
        ELSE coll

\* update_one({"_id": oid}, {"$addToSet": {field: value}}): appends the value
\* unless the array holds it; no document is created when none matches.
UpdateOneAddToSet(coll, oid, field, value) ==
    LET first == CHOOSE i \in DOMAIN coll :
                    /\ coll[i]._id = oid
                    /\ \A j \in 1..(i - 1) : coll[j]._id # oid
    IN  IF \E i \in DOMAIN coll : coll[i]._id = oid
        THEN [coll EXCEPT ![first] =
                 [@ EXCEPT ![field] = IF value \in Range(@) THEN @ ELSE Append(@, value)]]
        ELSE coll

\* db["user"].update_one({"_id": objid(user_id)}, {"$addToSet": ...})
SavePlaceCall(w, user_id, place_id) ==
    /\ pc[w] = "idle"
    /\ req' = [req EXCEPT ![w] =
                  [op |-> "save_place", user_id |-> user_id, place_id |-> place_id]]
    /\ IF ~IsValidId(user_id)
       THEN Finish(w, Reply(400, "Invalid ID format")) /\ UNCHANGED user
       ELSE /\ user' = UpdateOneAddToSet(user, objid(user_id), "saved_places", place_id)
            /\ pc' = [pc EXCEPT ![w] = "sp_find"]
            /\ UNCHANGED ret
    /\ UNCHANGED <<place, review, quizresult, oidSeq, loc>>

\* doc = db["user"].find_one({"_id": objid(user_id)}); return serialize(doc)
SavePlaceFind(w) ==
    /\ pc[w] = "sp_find"
    /\ Finish(w, Reply(200, serialize(FindOneById(user, objid(req[w].user_id)))))
    /\ UNCHANGED <<store, req, loc>>

profile(w, user_id) ==
    /\ pc[w] = "idle"
    /\ req' = [req EXCEPT ![w] = [op |-> "profile", user_id |-> user_id]]
    /\ IF ~IsValidId(user_id)
       THEN Finish(w, Reply(400, "Invalid ID format"))
       ELSE IF FindOneById(user, objid(user_id)) = None
       THEN Finish(w, Reply(404, "User not found"))
       ELSE Finish(w, Reply(200, serialize(FindOneById(user, objid(user_id)))))
    /\ UNCHANGED <<store, loc>>

SignupInputs ==
    { [name |-> "Ana", email |-> "a@x.io", photo |-> None],
      [name |-> "Bea", email |-> "a@x.io", photo |-> Some("p.png")],
      [name |-> "Bea", email |-> "b@x.io", photo |-> None] }

UserIdInputs == {IdLower(1), IdUpper(1), IdLower(2), IdBad}

SavedIdInputs == {IdLower(7), IdLower(8)}

AuthStep(w) ==
    \/ \E payload \in SignupInputs : SignupCall(w, payload)
    \/ SignupInsert(w)
    \/ SignupFind(w)
    \/ \E user_id \in UserIdInputs, place_id \in SavedIdInputs :
          SavePlaceCall(w, user_id, place_id)
    \/ SavePlaceFind(w)
    \/ \E user_id \in UserIdInputs : profile(w, user_id)
    \/ Return(w)

AuthNext == \E w \in Workers : AuthStep(w)

AuthSpec == Init /\ [][AuthNext]_vars

SeqAuthNext == \E w \in Workers : Alone(w) /\ AuthStep(w)

SeqAuthSpec == Init /\ [][SeqAuthNext]_vars

(***************************************************************************)
(* GET /places                                                             *)
(***************************************************************************)
\* The regular expression re matched at the start of text, ignoring case
\* ("$options": "i").  The syntax covered is what the requests below use: a
\* literal character, "." for any character, and a final "$".
RECURSIVE MatchHere(_, _)
MatchHere(re, text) ==
    IF re = <<>> THEN TRUE
    ELSE IF re = <<"$">> THEN text = <<>>
    ELSE IF text = <<>> THEN FALSE
    ELSE /\ (re[1] = "." \/ ToLower(re[1]) = ToLower(text[1]))
         /\ MatchHere(Tail(re), Tail(text))

\* {"$regex": re, "$options": "i"}: a match anywhere in text, or at its start
\* when re begins with "^".
RegexSearch(re, text) ==
    IF re # <<>> /\ re[1] = "^"
    THEN MatchHere(Tail(re), text)
    ELSE \E k \in 1..(Len(text) + 1) : MatchHere(re, SubSeq(text, k, Len(text)))

\* "if city:" is false for None and for the empty string.
Truthy(opt) == opt # None /\ opt[1] # ""

\* The filter list_places builds, applied to one document.
PlaceFilter(d, city, type, q) ==
    /\ Truthy(city) =>
          RegexSearch(<<"^">> \o Chars(city[1]) \o <<"$">>, Chars(d.city))
    /\ Truthy(type) =>
          RegexSearch(<<"^">> \o Chars(type[1]) \o <<"$">>, Chars(d.type))
    /\ Truthy(q) =>
          \/ RegexSearch(Chars(q[1]), Chars(d.name))
          \/ RegexSearch(Chars(q[1]), Chars(d.description))
          \/ \E t \in DOMAIN d.main_tags : RegexSearch(Chars(q[1]), Chars(d.main_tags[t]))

\* [serialize(d) for d in docs]
RECURSIVE SerializeAll(_)
SerializeAll(docs) ==
    IF docs = <<>> THEN <<>>
    ELSE <<serialize(Some(Head(docs)))[1]>> \o SerializeAll(Tail(docs))

\* get_documents("place", filt, None)
list_places(w, city, type, q) ==
    /\ pc[w] = "idle"
    /\ req' = [req EXCEPT ![w] = [op |-> "list_places", city |-> city, type |-> type, q |-> q]]
    /\ Finish(w, Reply(200, SerializeAll(
                      SelectSeq(place, LAMBDA d : PlaceFilter(d, city, type, q)))))
    /\ UNCHANGED <<store, loc>>

CityInputs == {None, Some(""), Some("lisbon"), Some("LISBON"), Some("Lis"), Some("L.sbon")}

TypeInputs == {None, Some("Hotel"), Some("hot")}

QInputs == {None, Some("SAFE"), Some("staff"), Some("Thy.e"), Some("zz")}

ListStep(w) ==
    \/ SeedCall(w)
    \/ SeedInsert(w)
    \/ \E city \in CityInputs, type \in TypeInputs, q \in QInputs :
          list_places(w, city, type, q)
    \/ Return(w)

ListNext == \E w \in Workers : ListStep(w)

ListSpec == Init /\ [][ListNext]_vars

(***************************************************************************)
(* GET /places/{place_id}/reviews                                          *)
(***************************************************************************)
RECURSIVE Reverse(_)
Reverse(s) == IF s = <<>> THEN <<>> ELSE Append(Reverse(Tail(s)), Head(s))

\* find({"place_id": place_id}).sort("created_at", -1): created_at grows with
\* every insert, so newest first is the insertion order reversed.
list_reviews(w, place_id) ==
    /\ pc[w] = "idle"
    /\ req' = [req EXCEPT ![w] = [op |-> "list_reviews", place_id |-> place_id]]
    /\ Finish(w, Reply(200, SerializeAll(Reverse(
                      SelectSeq(review, LAMBDA r : r.place_id = place_id)))))
    /\ UNCHANGED <<store, loc>>

(***************************************************************************)
(* POST /quiz                                                              *)
(***************************************************************************)
QuizScore(ans) ==
    LET s1 == IF ans.comfort_level \in {"high", "medium"}
              THEN (IF ans.comfort_level = "high" THEN 2 ELSE 1) ELSE 0
        s2 == IF ans.solo_experience \in {"5+", "2-4"}
              THEN (IF ans.solo_experience = "5+" THEN 2 ELSE 1) ELSE 0
        s3 == IF ans.night_travel = "comfortable" THEN 2 ELSE 0
        s4 == IF "crowds" \notin Range(ans.anxiety_triggers) THEN 1 ELSE 0
        s5 == IF ans.transport_confidence \in {"metro", "ride-share"} THEN 1 ELSE 0
    IN  s1 + s2 + s3 + s4 + s5

\* QuizPersona with the first threshold off by one.
QuizPersona_Strict(score) ==
    IF score > 6
    THEN [persona |-> "Trailblazer", recs |-> <<"Singapore", "Lisbon", "Copenhagen">>]
    ELSE IF score >= 4
    THEN [persona |-> "Planner", recs |-> <<"Tokyo", "Vienna", "Seoul">>]
    ELSE [persona |-> "Cautious Explorer", recs |-> <<"Reykjavik", "Zurich", "Taipei">>]

QuizPersona(score) ==
    IF score >= 6
    THEN [persona |-> "Trailblazer", recs |-> <<"Singapore", "Lisbon", "Copenhagen">>]
    ELSE IF score >= 4
    THEN [persona |-> "Planner", recs |-> <<"Tokyo", "Vienna", "Seoul">>]
    ELSE [persona |-> "Cautious Explorer", recs |-> <<"Reykjavik", "Zurich", "Taipei">>]

evaluate_quiz(w, ans, user_id) ==
    /\ pc[w] = "idle"
    /\ Len(quizresult) < MaxQuiz
    /\ req' = [req EXCEPT ![w] = [op |-> "evaluate_quiz", ans |-> ans, user_id |-> user_id]]
    /\ LET oid == oidSeq + 1
           out == QuizPersona(QuizScore(ans))
           result == [user_id |-> user_id, persona |-> out.persona,
                      recommendations |-> out.recs, answers |-> ans]
       IN  /\ quizresult' = Append(quizresult, Stamp(result, oid))
           /\ oidSeq' = oid
           /\ Finish(w, Reply(200, [id |-> StrOfOid(oid), persona |-> out.persona,
                                    recommendations |-> out.recs]))
    /\ UNCHANGED <<place, review, user, loc>>

QuizInputs ==
    [comfort_level : {"high", "medium", "low"},
     solo_experience : {"5+", "2-4", "0-1"},
     night_travel : {"comfortable", "uncomfortable"},
     anxiety_triggers : {<<>>, <<"noise", "crowds">>},
     transport_confidence : {"metro", "ride-share", "walk"}]

QuizUserInputs == {None, Some("u1")}

QuizStep(w) ==
    \/ \E ans \in QuizInputs, user_id \in QuizUserInputs : evaluate_quiz(w, ans, user_id)
    \/ Return(w)

QuizNext == \E w \in Workers : Alone(w) /\ QuizStep(w)

\* The store is empty, or holds the three places of a completed POST /seed.
QuizInit ==
    /\ \/ place = <<>> /\ oidSeq = 0
       \/ /\ place = [k \in DOMAIN Samples |-> Stamp(Samples[k], k)]
          /\ oidSeq = Len(Samples)
    /\ review = <<>>
    /\ user = <<>>
    /\ quizresult = <<>>
    /\ pc = [w \in Workers |-> "idle"]
    /\ req = [w \in Workers |-> NoReq]
    /\ loc = [w \in Workers |-> NoLoc]
    /\ ret = [w \in Workers |-> NoRet]

QuizSpec == QuizInit /\ [][QuizNext]_vars

(***************************************************************************)
(* The whole service.                                                      *)
(***************************************************************************)
\* Documents that will exist once the calls in flight have made their inserts.
DocsCommitted == oidSeq + SeedPending + ReviewPending + SignupPending

\* The ids a client was given: those of the stored users.
KnownUserIds == {StrOfOid(user[i]._id) : i \in DOMAIN user}

Step(w) ==
    \/ DocsCommitted + Len(Samples) <= MaxDocs /\ SeedCall(w)
    \/ SeedInsert(w)
    \/ /\ DocsCommitted < MaxDocs
       /\ \E place_id \in {IdLower(1), IdUpper(1)} : AddReviewCall(w, place_id, NewReview(2))
    \/ AddReviewInsert(w)
    \/ AddReviewFind(w)
    \/ AddReviewUpdate(w)
    \/ /\ DocsCommitted < MaxDocs
       /\ SignupCall(w, [name |-> "Ana", email |-> "a@x.io", photo |-> None])
    \/ SignupInsert(w)
    \/ SignupFind(w)
    \/ \E user_id \in KnownUserIds \cup {IdBad} : SavePlaceCall(w, user_id, IdLower(1))
    \/ SavePlaceFind(w)
    \/ \E user_id \in KnownUserIds : profile(w, user_id)
    \/ list_places(w, Some("lisbon"), None, None)
    \/ list_reviews(w, IdLower(1))
    \/ /\ DocsCommitted < MaxDocs
       /\ evaluate_quiz(w, [comfort_level |-> "high", solo_experience |-> "2-4",
                            night_travel |-> "comfortable", anxiety_triggers |-> <<"crowds">>,
                            transport_confidence |-> "walk"], None)
    \/ Return(w)

Next == \E w \in Workers : Step(w)

Spec == Init /\ [][Next]_vars

(***************************************************************************)
(* Claims about add_review.                                                *)
(***************************************************************************)
\* The reviews of the place with ObjectId oid: those whose place_id parses to it.
ReviewsOfPlace(oid) ==
    SelectSeq(review, LAMBDA r : IsValidId(r.place_id) /\ objid(r.place_id) = oid)

\* The ratings stored under the string place_id, oldest first.
StoredRatings(place_id) ==
    MapField(SelectSeq(review, LAMBDA r : r.place_id = place_id), "rating")

Mean2(ratings) == Round2(SumSeq(ratings), Len(ratings))

\* The score the place was inserted with.
CreationScore(p) ==
    LET k == CHOOSE i \in DOMAIN Samples : Samples[i].name = p.name
    IN  Samples[k].safety_score

AddReviewReturned(w) ==
    pc[w] = "done" /\ req[w].op = "add_review" /\ ret[w].status = 200

\* C1: when add_review calls run one after another, then once a call has
\* returned the reviewed place's safety_score is the rounded mean of the
\* ratings of all the reviews stored for that place.
C1_SequentialScoreIsMeanOfAll ==
    \A w \in Workers :
        AddReviewReturned(w) =>
            \A i \in DOMAIN place :
                place[i]._id = objid(req[w].place_id) =>
                    place[i].safety_score =
                        Mean2(MapField(ReviewsOfPlace(place[i]._id), "rating"))

C3_WrittenScoreIsMeanOfPlaceSnapshot ==
    \A w \in Workers :
        pc[w] = "ar_update" =>
            LET mine == ReviewsOfPlace(objid(req[w].place_id))
                own == CHOOSE j \in DOMAIN mine : StrOfOid(mine[j]._id) = loc[w].rid[1]
            IN  /\ \E k \in own..Len(mine) :
                      loc[w].ratings = MapField(SubSeq(mine, 1, k), "rating")
                /\ Mean2(loc[w].ratings) \in 100..500

\* C6: an add_review call with a rating outside 1..5 answers 422, one with a
\* malformed place_id answers 400, one whose place does not exist answers
\* 404; such a call ends at once and leaves the store as it was, and only an
\* accepted call ever reaches the insert.
C6_RejectedReviewWritesNothing ==
    [][\A w \in Workers :
          /\ (pc[w] = "idle" /\ req'[w].op = "add_review") =>
                LET rating == req'[w].payload.rating
                    id == req'[w].place_id
                    exists == IsValidId(id) /\ \E i \in DOMAIN place : place[i]._id = objid(id)
                IN  /\ ~RatingOk(rating) => pc'[w] = "done" /\ ret'[w].status = 422
                    /\ (RatingOk(rating) /\ ~IsValidId(id)) =>
                          pc'[w] = "done" /\ ret'[w].status = 400
                    /\ (RatingOk(rating) /\ IsValidId(id) /\ ~exists) =>
                          pc'[w] = "done" /\ ret'[w].status = 404
                    /\ (RatingOk(rating) /\ exists) => pc'[w] = "ar_insert"
                    /\ pc'[w] = "done" => (review' = review /\ place' = place)
          /\ (pc[w] = "ar_insert" /\ pc'[w] # "ar_insert") =>
                /\ RatingOk(req[w].payload.rating)
                /\ IsValidId(req[w].place_id)
                /\ \E i \in DOMAIN place : place[i]._id = objid(req[w].place_id)
      ]_vars

\* C6's case: a call was refused with 404 while reviews are stored.
C6_Witness ==
    \E w \in Workers :
        /\ pc[w] = "done" /\ req[w].op = "add_review"
        /\ ret[w].status = 404
        /\ RatingOk(req[w].payload.rating)
        /\ review # <<>>

(***************************************************************************)
(* Claims about signup and save_place.                                     *)
(***************************************************************************)
UsersWithEmail(email) == {i \in DOMAIN user : user[i].email = email}

SignupReturned(w) == pc[w] = "done" /\ req[w].op = "signup"

\* C4: when signup calls do not overlap, there is never more than one user
\* document per email; a call returns the document that carries its email;
\* and a call whose email is already stored returns that document's id at
\* once and leaves the user collection as it was, whatever name and photo it
\* passes.
C4_SequentialSignupIdempotent ==
    /\ [](\A e \in {p.email : p \in SignupInputs} : Cardinality(UsersWithEmail(e)) <= 1)
    /\ [](\A w \in Workers :
            SignupReturned(w) =>
                /\ ret[w].status = 200
                /\ ret[w].body # None
                /\ \E i \in UsersWithEmail(req[w].payload.email) :
                      /\ ret[w].body[1].id = StrOfOid(user[i]._id)
                      /\ ret[w].body[1].name = user[i].name
                      /\ ret[w].body[1].photo = user[i].photo
                      /\ ret[w].body[1].saved_places = user[i].saved_places)
    /\ [][\A w \in Workers :
            (/\ pc[w] = "idle"
             /\ req'[w].op = "signup"
             /\ UsersWithEmail(req'[w].payload.email) # {}) =>
                /\ user' = user
                /\ pc'[w] = "done"
                /\ \E i \in UsersWithEmail(req'[w].payload.email) :
                      ret'[w].body[1].id = StrOfOid(user[i]._id)
         ]_vars

\* C4's case: a second signup with a stored email and another name has
\* returned the document of the first.
C4_Witness ==
    \E w \in Workers :
        /\ SignupReturned(w)
        /\ Len(user) = 1
        /\ ret[w].body[1].id = StrOfOid(user[1]._id)
        /\ req[w].payload.email = user[1].email
        /\ req[w].payload.name # user[1].name
        /\ req[w].payload.photo # user[1].photo
        /\ ret[w].body[1].name = user[1].name

BothInserted(w1, w2) ==
    /\ w1 # w2
    /\ SignupReturned(w1) /\ SignupReturned(w2)
    /\ "uid" \in DOMAIN loc[w1] /\ "uid" \in DOMAIN loc[w2]
    /\ req[w1].payload.email = req[w2].payload.email

\* C5: when two concurrent signup calls with the same email both passed the
\* lookup before either inserted, both insert: the store then holds two
\* distinct user documents with that email and the calls return different ids.
C5_RacingSignupsDuplicate ==
    \A w1, w2 \in Workers :
        BothInserted(w1, w2) =>
            /\ Cardinality(UsersWithEmail(req[w1].payload.email)) = 2
            /\ ret[w1].body[1].id # ret[w2].body[1].id
            /\ {ret[w1].body[1].id, ret[w2].body[1].id} =
                  {StrOfOid(user[i]._id) : i \in UsersWithEmail(req[w1].payload.email)}

\* C5's case: both racing calls have returned.
C5_Witness ==
    \E w1, w2 \in Workers :
        /\ BothInserted(w1, w2)
        /\ \E i, j \in DOMAIN user : i # j /\ user[i].email = user[j].email

NoDuplicates(s) == \A i, j \in DOMAIN s : s[i] = s[j] => i = j

\* The step is worker w's save_place update.
SavePlaceStep(w) == pc[w] = "idle" /\ req'[w].op = "save_place"

\* C7: saved_places never holds an entry twice; a save_place call on an
\* existing user makes saved_places the union of what it was and the given
\* place_id (so nothing changes when the id is there already); no other step
\* changes saved_places, which starts empty; and a call whose user_id matches
\* no user changes and creates no document.
C7_SavePlaceIsSetUnion ==
    /\ [](\A i \in DOMAIN user : NoDuplicates(user[i].saved_places))
    /\ [][/\ \A i \in DOMAIN user :
                LET old == user[i].saved_places
                    new == user'[i].saved_places
                IN  IF \E w \in Workers :
                          /\ SavePlaceStep(w)
                          /\ IsValidId(req'[w].user_id)
                          /\ objid(req'[w].user_id) = user[i]._id
                    THEN \E w \in Workers :
                            /\ SavePlaceStep(w)
                            /\ Range(new) = Range(old) \cup {req'[w].place_id}
                            /\ req'[w].place_id \in Range(old) => new = old
                    ELSE new = old
          /\ \A i \in DOMAIN user' \ DOMAIN user : user'[i].saved_places = <<>>
          /\ \A w \in Workers :
                (/\ SavePlaceStep(w)
                 /\ ~(/\ IsValidId(req'[w].user_id)
                      /\ \E i \in DOMAIN user : user[i]._id = objid(req'[w].user_id))) =>
                    store' = store
         ]_vars

\* C7's case: two save_place calls with the same place_id on the same user
\* have both returned.
C7_Witness ==
    \E w1, w2 \in Workers :
        /\ w1 # w2
        /\ pc[w1] = "done" /\ req[w1].op = "save_place" /\ ret[w1].status = 200
        /\ pc[w2] = "done" /\ req[w2].op = "save_place" /\ ret[w2].status = 200
        /\ req[w1].place_id = req[w2].place_id
        /\ objid(req[w1].user_id) = objid(req[w2].user_id)
        /\ \E i \in DOMAIN user :
              /\ user[i]._id = objid(req[w1].user_id)
              /\ user[i].saved_places = <<req[w1].place_id>>

(***************************************************************************)
(* Claims about list_places, evaluate_quiz and the whole service.          *)
(***************************************************************************)
LowerChars(s) == [i \in DOMAIN Chars(s) |-> ToLower(Chars(s)[i])]

EqualsIgnoreCase(a, b) == LowerChars(a) = LowerChars(b)

ContainsIgnoreCase(text, sub) ==
    \E k \in 0..(Len(Chars(text)) - Len(Chars(sub))) :
        SubSeq(LowerChars(text), k + 1, k + Len(Chars(sub))) = LowerChars(sub)

\* The filters as the specification words them: the request's strings taken
\* literally.  (An empty string is read as an omitted filter.)
LiteralFilter(d, city, type, q) ==
    /\ Truthy(city) => EqualsIgnoreCase(d.city, city[1])
    /\ Truthy(type) => EqualsIgnoreCase(d.type, type[1])
    /\ Truthy(q) =>
          \/ ContainsIgnoreCase(d.name, q[1])
          \/ ContainsIgnoreCase(d.description, q[1])
          \/ \E t \in DOMAIN d.main_tags : ContainsIgnoreCase(d.main_tags[t], q[1])

\* C9: list_places returns exactly the stored places whose city and type equal
\* the given ones ignoring case and that contain q, ignoring case, in their
\* name, description or a tag, for every request string.
C9_ListPlacesTakesStringsLiterally ==
    [][\A w \in Workers :
          (pc[w] = "idle" /\ req'[w].op = "list_places") =>
              ret'[w].body =
                  SerializeAll(SelectSeq(place,
                      LAMBDA d : LiteralFilter(d, req'[w].city, req'[w].type, req'[w].q)))
      ]_vars

\* The scoring as the specification tabulates it.
RefPoints ==
    { <<"comfort_level", "high", 2>>, <<"comfort_level", "medium", 1>>,
      <<"solo_experience", "5+", 2>>, <<"solo_experience", "2-4", 1>>,
      <<"night_travel", "comfortable", 2>>,
      <<"transport_confidence", "metro", 1>>, <<"transport_confidence", "ride-share", 1>> }

RefScore(ans) ==
    LET hit == {t \in RefPoints : ans[t[1]] = t[2]}
    IN  SumOver([t \in hit |-> t[3]], hit)
        + (IF \E i \in DOMAIN ans.anxiety_triggers : ans.anxiety_triggers[i] = "crowds"
           THEN 0 ELSE 1)

RefPersona(ans) ==
    CASE RefScore(ans) \in 6..8 -> "Trailblazer"
      [] RefScore(ans) \in 4..5 -> "Planner"
      [] RefScore(ans) \in 0..3 -> "Cautious Explorer"

RefRecommendations(persona) ==
    CASE persona = "Trailblazer" -> <<"Singapore", "Lisbon", "Copenhagen">>
      [] persona = "Planner" -> <<"Tokyo", "Vienna", "Seoul">>
      [] persona = "Cautious Explorer" -> <<"Reykjavik", "Zurich", "Taipei">>

QuizStepOf(w) == pc[w] = "idle" /\ req'[w].op = "evaluate_quiz"

\* C10: evaluate_quiz answers the persona and recommendations of the
\* reference scoring of the answers alone, and appends exactly one QuizResult,
\* holding that persona, that list, the answers and the user_id, to the
\* collection, leaving the results stored before as they were.
C10_QuizFollowsReferenceScoring ==
    [][\A w \in Workers :
          QuizStepOf(w) =>
              LET ans == req'[w].ans
                  n == Len(quizresult)
              IN  /\ ret'[w].status = 200
                  /\ ret'[w].body.persona = RefPersona(ans)
                  /\ ret'[w].body.recommendations = RefRecommendations(RefPersona(ans))
                  /\ Len(quizresult') = n + 1
                  /\ SubSeq(quizresult', 1, n) = quizresult
                  /\ quizresult'[n + 1].persona = RefPersona(ans)
                  /\ quizresult'[n + 1].recommendations = RefRecommendations(RefPersona(ans))
                  /\ quizresult'[n + 1].answers = ans
                  /\ quizresult'[n + 1].user_id = req'[w].user_id
                  /\ ret'[w].body.id = StrOfOid(quizresult'[n + 1]._id)
      ]_vars

\* C10's case: a quiz scored 4 or 5 was evaluated for a user on a seeded store.
C10_Witness ==
    \E w \in Workers :
        /\ pc[w] = "done" /\ req[w].op = "evaluate_quiz"
        /\ req[w].user_id # None
        /\ place # <<>>
        /\ RefScore(req[w].ans) = 4
        /\ ret[w].body.persona = "Planner"
        /\ quizresult # <<>>
        /\ quizresult[Len(quizresult)].persona = "Planner"

\* No document of coll is deleted or moved by the step.
Kept(coll, collNext) ==
    /\ Len(collNext) >= Len(coll)
    /\ \A i \in DOMAIN coll : collNext[i]._id = coll[i]._id

\* Only place i's safety_score may differ after the step, and then the step
\* is the score update of an add_review call for that place.
PlaceFrame(i) ==
    /\ place'[i] = [place[i] EXCEPT !.safety_score = place'[i].safety_score]
    /\ place'[i].safety_score # place[i].safety_score =>
          \E w \in Workers :
              /\ pc[w] = "ar_update" /\ pc'[w] = "done"
              /\ objid(req[w].place_id) = place[i]._id

\* C8, as claimed: no step deletes a document, and no step changes a field of
\* a stored document other than a place's safety_score, which only the score
\* update of an add_review call for that place changes.
C8_OnlySafetyScoreChanges ==
    [][/\ Kept(place, place') /\ Kept(review, review')
       /\ Kept(user, user') /\ Kept(quizresult, quizresult')
       /\ \A i \in DOMAIN review : review'[i] = review[i]
       /\ \A i \in DOMAIN quizresult : quizresult'[i] = quizresult[i]
       /\ \A i \in DOMAIN user : user'[i] = user[i]
       /\ \A i \in DOMAIN place : PlaceFrame(i)
      ]_vars

\* C8, amended: besides a place's safety_score, a user's saved_places changes
\* too: only in a save_place call for that user, and only by one more entry.
C8_OnlyScoreAndSavedPlacesChange ==
    [][/\ Kept(place, place') /\ Kept(review, review')
       /\ Kept(user, user') /\ Kept(quizresult, quizresult')
       /\ \A i \in DOMAIN review : review'[i] = review[i]
       /\ \A i \in DOMAIN quizresult : quizresult'[i] = quizresult[i]
       /\ \A i \in DOMAIN user :
             /\ user'[i] = [user[i] EXCEPT !.saved_places = user'[i].saved_places]
             /\ user'[i].saved_places # user[i].saved_places =>
                   \E w \in Workers :
                       /\ SavePlaceStep(w)
                       /\ objid(req'[w].user_id) = user[i]._id
                       /\ user'[i].saved_places =
                             Append(user[i].saved_places, req'[w].place_id)
       /\ \A i \in DOMAIN place : PlaceFrame(i)
      ]_vars

\* C8's case: a review has changed a place's score and a user has saved a place.
C8_Witness ==
    /\ \E i \in DOMAIN place : place[i].safety_score # CreationScore(place[i])
    /\ \E i \in DOMAIN place : place[i].safety_score = CreationScore(place[i])
    /\ \E i \in DOMAIN user : user[i].saved_places # <<>>
    /\ review # <<>>

====
